---- MODULE Spec2Model ----
(***************************************************************************)
(* Evaluation engine of ell (src/src/ell/evaluation.py): Evaluation.run,   *)
(* Evaluation._process_single, Evaluation.validate_criteria and the        *)
(* EvaluationRun record, together with the parts of                        *)
(* concurrent.futures (ThreadPoolExecutor, as_completed) that run() drives.*)
(***************************************************************************)
EXTENDS Integers, Sequences, FiniteSets, TLC

\* ---------------------------------------------------------------- bounds
MaxRows == 2
MaxWorkers == 2
MaxSamples == 2
MaxCriteria == 2
\* How far the clock can advance between the two readings of datetime.now().
MaxElapsed == 1

\* ---------------------------------------------------------------- values
\* Python's None, and "no exception pending".
None == [none |-> TRUE]
NoExc == "none"

EmptyDict == [k \in {} |-> 0]

\* Datapoints: a mapping with an 'input' (a list, a dict, or something else)
\* and an 'expected' field read by the criteria.
DpAnn == [input |-> [kind |-> "list", arg |-> "Ann"], expected |-> "Ann"]
DpBo == [input |-> [kind |-> "dict", arg |-> "Bo"], expected |-> "Bob"]
DpNum == [input |-> [kind |-> "other", arg |-> "7"], expected |-> "7"]
DpErr == [input |-> [kind |-> "list", arg |-> "err"], expected |-> "err"]
DpNil == [input |-> [kind |-> "dict", arg |-> "nil"], expected |-> "nil"]
Datapoints == {DpAnn, DpBo, DpNum, DpErr, DpNil}
\* A datapoint on which the LMP call never comes back (a stuck upstream request).
DpHang == [input |-> [kind |-> "list", arg |-> "hang"], expected |-> "hang"]

RECURSIVE SeqsUpTo(_, _)
SeqsUpTo(S, n) ==
  IF n = 0 THEN {<< >>}
  ELSE LET shorter == SeqsUpTo(S, n - 1)
       IN shorter \cup {Append(s, x) : s \in {t \in shorter : Len(t) = n - 1}, x \in S}

Datasets == SeqsUpTo(Datapoints, MaxRows)

\* Python objects that may be handed in as criteria: named functions, a second
\* function that is also called "length", a lambda, a callable object without
\* __name__ (a functools.partial), a number and a module (named, not callable).
FnLength == [id |-> "length", callable |-> TRUE, hasname |-> TRUE, name |-> "length"]
FnMatch == [id |-> "match", callable |-> TRUE, hasname |-> TRUE, name |-> "match"]
FnGrade == [id |-> "grade", callable |-> TRUE, hasname |-> TRUE, name |-> "grade"]
FnLength2 == [id |-> "length2", callable |-> TRUE, hasname |-> TRUE, name |-> "length"]
FnLambda == [id |-> "lambda", callable |-> TRUE, hasname |-> TRUE, name |-> "<lambda>"]
FnPartial == [id |-> "partial", callable |-> TRUE, hasname |-> FALSE, name |-> ""]
ObjNumber == [id |-> "number", callable |-> FALSE, hasname |-> FALSE, name |-> ""]
ObjModule == [id |-> "module", callable |-> FALSE, hasname |-> TRUE, name |-> "statistics"]
Objects == {FnLength, FnMatch, FnLength2, FnLambda, FnPartial, ObjNumber, ObjModule}

\* The criteria mappings an Evaluation is run with (after validation).
CriteriaChoices ==
  { EmptyDict,
    [length |-> FnLength, match |-> FnMatch],
    [grade |-> FnGrade] }

DefaultParamChoices == {None, [n |-> 3, temperature |-> 1]}
ApiParamChoices == {None, [n |-> 1, temperature |-> 2]}

\* ------------------------------------------------------------- callables
TextLen(text) ==
  CASE text = "Ann" -> 3
    [] text = "Bo" -> 2
    [] OTHER -> 0

\* What a criterion callable returns for (datapoint, output): a tagged Python
\* value (int, bool or str).
CritCall(crit, dp, out) ==
  CASE crit.id = "length" -> [t |-> "int", v |-> TextLen(out.text) + out.sample]
    [] crit.id = "match" -> [t |-> "bool", v |-> (out.text = dp.expected)]
    [] crit.id = "grade" -> [t |-> "str", v |-> IF out.text = dp.expected THEN "3" ELSE "n/a"]

\* float(x): ints and bools convert, a numeric string parses, any other string
\* raises ValueError.
Float(x) ==
  CASE x.t = "int" -> [ok |-> TRUE, v |-> x.v]
    [] x.t = "bool" -> [ok |-> TRUE, v |-> IF x.v THEN 1 ELSE 0]
    [] x.t = "str" -> IF x.v = "3" THEN [ok |-> TRUE, v |-> 3]
                                   ELSE [ok |-> FALSE, v |-> 0]

\* The LMP under evaluation: deterministic in (argument, api_params).  It raises
\* on "err", returns an empty list on "nil", never returns on "hang", and
\* otherwise honours the
\* sample-count field n: one bare output when n is absent or 1, a list of n
\* outputs otherwise.
SampleCount(api_params) ==
  IF "n" \in DOMAIN api_params THEN api_params["n"] ELSE 1

Lmp(arg, api_params) ==
  CASE arg = "err" -> [tag |-> "raise", val |-> << >>]
    [] arg = "nil" -> [tag |-> "list", val |-> << >>]
    [] arg = "hang" -> [tag |-> "never", val |-> << >>]
    [] OTHER ->
         IF SampleCount(api_params) = 1
           THEN [tag |-> "scalar", val |-> [text |-> arg, sample |-> 0]]
           ELSE [tag |-> "list",
                 val |-> [j \in 1..SampleCount(api_params) |-> [text |-> arg, sample |-> j]]]

\* ----------------------------------------------------------------- state
VARIABLES
  config_verbose,    \* ell.configurator.config.verbose
  verbose0,          \* its value immediately before run() was called
  self,              \* the Evaluation: name, dataset, criteria, default_api_params
  args,              \* run()'s arguments
  pc,                \* the coordinating thread's position in run()
  run_api_params,
  evaluation_run,
  original_verbose,
  scores,
  outputs,
  pbar,
  futures,           \* one Future per submitted task
  work_queue,        \* ThreadPoolExecutor._work_queue
  threads,           \* len(ThreadPoolExecutor._threads)
  idle,              \* ThreadPoolExecutor._idle_semaphore
  releasing,         \* workers between work_item.run() and _idle_semaphore.release()
  task,              \* each task's position in _process_single
  finished,          \* as_completed: futures found finished when it was called
  pending,           \* as_completed: futures not yet yielded nor in finished
  waiter,            \* as_completed: the waiter's finished_futures, or None
  exc,               \* the exception propagating out of the try block
  ret,               \* what run() handed to its caller
  lmp_calls,         \* per row, the api_params of each LMP invocation so far
  drained,           \* the rows in the order as_completed yielded them
  other              \* a second run() call in the same process: its position,
                     \* its verbose argument and its saved original_verbose

coordVars == <<pc, run_api_params, evaluation_run, original_verbose, scores, outputs, pbar, exc, ret>>
poolVars == <<futures, work_queue, threads, idle, releasing, task, lmp_calls>>
acVars == <<finished, pending, waiter, drained>>
envVars == <<verbose0, self, args, other>>
vars == <<config_verbose, envVars, coordVars, poolVars, acVars>>

\* ------------------------------------------------------------- helpers
\* A merge in which the defaults win.
DictMerge_DefaultWins(a, b) ==
  [k \in (DOMAIN a) \cup (DOMAIN b) |-> IF k \in DOMAIN a THEN a[k] ELSE b[k]]

\* {**a, **b}: b wins on every shared key.
DictMerge(a, b) ==
  [k \in (DOMAIN a) \cup (DOMAIN b) |-> IF k \in DOMAIN b THEN b[k] ELSE a[k]]

\* d[k] = v on a dict.
DictSet(d, k, v) ==
  [j \in (DOMAIN d) \cup {k} |-> IF j = k THEN v ELSE d[j]]

\* (x or {})
OrEmpty(x) == IF x = None THEN EmptyDict ELSE x

\* scores[name] on a defaultdict(list): a missing key reads as the empty list.
ScoresGet(sc, name) == IF name \in DOMAIN sc THEN sc[name] ELSE << >>

NewFuture == [state |-> "PENDING", exception |-> NoExc,
              result |-> [outputs |-> << >>, scores |-> EmptyDict]]

NewTask == [phase |-> "queued", lmp_output |-> << >>]

Rows == 1..Len(self.dataset)

\* Tasks inside _process_single, from the LMP invocation to the end of scoring.
Executing == {i \in DOMAIN task : task[i].phase \in {"lmp", "scoring"}}

\* ------------------------------------------------------------------ Init
\* Nothing of a run exists yet.
NoRunYet ==
  /\ run_api_params = EmptyDict
  /\ evaluation_run = None
  /\ original_verbose = FALSE
  /\ scores = EmptyDict
  /\ outputs = << >>
  /\ pbar = 0
  /\ futures = << >>
  /\ work_queue = << >>
  /\ threads = 0
  /\ idle = 0
  /\ releasing = 0
  /\ task = << >>
  /\ finished = {}
  /\ pending = {}
  /\ waiter = [installed |-> FALSE, finished_futures |-> << >>]
  /\ exc = NoExc
  /\ ret = None
  /\ lmp_calls = [i \in Rows |-> << >>]
  /\ drained = << >>

\* A validated Evaluation about to be run, with the flag, the criteria and the
\* arguments of run() drawn from the given sets.
InitRun(datasets, flags, criteriaSet, defaultSet, apiSet, workerSet, sampleSet) ==
  /\ config_verbose \in flags
  /\ verbose0 = config_verbose
  /\ self \in [name : {"eval"}, dataset : datasets, criteria : criteriaSet,
               default_api_params : defaultSet]
  /\ args \in [n_workers : workerSet, api_params : apiSet,
               verbose : flags, samples_per_datapoint : sampleSet]
  /\ pc = "start"
  /\ NoRunYet

\* No second run() call is made.
NoOtherRun == [pc |-> "none", verbose |-> FALSE, original_verbose |-> FALSE]

InitOn(datasets, flags, criteriaSet, defaultSet, apiSet, workerSet, sampleSet) ==
  /\ InitRun(datasets, flags, criteriaSet, defaultSet, apiSet, workerSet, sampleSet)
  /\ other = NoOtherRun

InitWith(flags, criteriaSet, defaultSet, apiSet, workerSet, sampleSet) ==
  InitOn(Datasets, flags, criteriaSet, defaultSet, apiSet, workerSet, sampleSet)

\* Every dataset, criteria mapping and pool size, with one sample or MaxSamples
\* samples per datapoint; the flag is off and stays off, and no api_params are
\* given.
Init == InitWith({FALSE}, CriteriaChoices, {None}, {None}, 0..MaxWorkers, {1, MaxSamples})

\* Every value of config.verbose and of the verbose argument.
InitVerbose == InitWith(BOOLEAN, {EmptyDict, [grade |-> FnGrade]}, {None}, {None},
                        0..MaxWorkers, {1})

\* Every combination of default_api_params, api_params and samples_per_datapoint,
\* without criteria and with two of them.
InitParams == InitWith({FALSE}, {EmptyDict, [length |-> FnLength, match |-> FnMatch]},
                       DefaultParamChoices, ApiParamChoices, {1}, 1..MaxSamples)

\* --------------------------------------------------- the coordinating thread
\* run_api_params as computed at the top of run().
MergedParams ==
  LET merged == DictMerge(OrEmpty(self.default_api_params), OrEmpty(args.api_params))
  IN IF args.samples_per_datapoint > 1
       THEN DictSet(merged, "n", args.samples_per_datapoint)
       ELSE merged

\* EvaluationRun(lmp=..., inputs=self.dataset, api_params=..., start_time=...):
\* EvaluationRun declares no field named inputs (inputs is a read-only
\* property), so the keyword is dropped and dataset keeps its default.
\* A record whose end_time is filled in when the record is created.
NewEvaluationRun_EndTimeNow(params) ==
  [scores |-> EmptyDict, dataset |-> << >>, lmp |-> "lmp", outputs |-> << >>,
   api_params |-> params, start_time |-> 0, end_time_set |-> TRUE, end_time |-> 0]

\* start_time is the origin of the run's time axis; end_time keeps its default
\* None (end_time_set tells None from a time).
NewEvaluationRun(params) ==
  [scores |-> EmptyDict, dataset |-> << >>, lmp |-> "lmp", outputs |-> << >>,
   api_params |-> params, start_time |-> 0, end_time_set |-> FALSE, end_time |-> None]

\* EvaluationRun.inputs
Inputs(run) == [i \in 1..Len(run.dataset) |-> run.dataset[i].input]

\* A merge that reuses the given mapping as run_api_params, so that forcing n
\* writes into it.
AfterForcingN_Aliased(d) ==
  IF d # None /\ args.samples_per_datapoint > 1
    THEN DictSet(d, "n", args.samples_per_datapoint)
    ELSE d

\* What the mapping d (default_api_params or the caller's api_params) holds once
\* run_api_params['n'] has been assigned: {**..., **...} built a new dict, so d
\* is another object and keeps its contents.
AfterForcingN(d) == d

RunPrepare ==
  /\ pc = "start"
  /\ run_api_params' = MergedParams
  /\ self' = [self EXCEPT !.default_api_params = AfterForcingN(@)]
  /\ args' = [args EXCEPT !.api_params = AfterForcingN(@)]
  /\ evaluation_run' = NewEvaluationRun(MergedParams)
  /\ pc' = "save"
  /\ UNCHANGED <<config_verbose, verbose0, other, original_verbose, scores, outputs, pbar,
                 exc, ret, poolVars, acVars>>

SaveVerbose ==
  /\ pc = "save"
  /\ original_verbose' = config_verbose
  /\ pc' = "set"
  /\ UNCHANGED <<config_verbose, envVars, run_api_params, evaluation_run, scores, outputs,
                 pbar, exc, ret, poolVars, acVars>>

SetVerbose ==
  /\ pc = "set"
  /\ config_verbose' = args.verbose
  /\ pc' = "pool"
  /\ UNCHANGED <<envVars, run_api_params, evaluation_run, original_verbose, scores, outputs,
                 pbar, exc, ret, poolVars, acVars>>

\* scores/outputs start empty; ThreadPoolExecutor(max_workers=n_workers) raises
\* ValueError when max_workers <= 0.
CreatePool ==
  /\ pc = "pool"
  /\ scores' = EmptyDict
  /\ outputs' = << >>
  /\ IF args.n_workers <= 0
       THEN exc' = "ValueError:max_workers" /\ pc' = "finally"
       ELSE exc' = exc /\ pc' = "submit"
  /\ UNCHANGED <<config_verbose, envVars, run_api_params, evaluation_run, original_verbose,
                 pbar, ret, poolVars, acVars>>

\* A pool that starts a thread for every submitted task.
AdjustThreadCount_Unbounded(idl, thr) == [idle |-> idl, threads |-> thr + 1]

\* ThreadPoolExecutor._adjust_thread_count: reuse an idle worker if the semaphore
\* can be taken, otherwise start a thread while fewer than max_workers exist.
AdjustThreadCount(idl, thr) ==
  IF idl > 0 THEN [idle |-> idl - 1, threads |-> thr]
  ELSE IF thr < args.n_workers THEN [idle |-> idl, threads |-> thr + 1]
  ELSE [idle |-> idl, threads |-> thr]

\* executor.submit(self._process_single, data_point, lmp_to_use, run_api_params),
\* one dataset row per step, in dataset order.
Submit ==
  /\ pc = "submit"
  /\ Len(futures) < Len(self.dataset)
  /\ LET i == Len(futures) + 1
         adj == AdjustThreadCount(idle, threads)
     IN /\ futures' = Append(futures, NewFuture)
        /\ task' = Append(task, NewTask)
        /\ work_queue' = Append(work_queue, i)
        /\ idle' = adj.idle
        /\ threads' = adj.threads
  /\ UNCHANGED <<config_verbose, envVars, coordVars, releasing, lmp_calls, acVars>>

\* as_completed(futures), entered by the for loop: the futures already finished
\* are set aside (a set, so their order is arbitrary) and a waiter is installed
\* on the others.
AsCompleted ==
  /\ pc = "submit"
  /\ Len(futures) = Len(self.dataset)
  /\ finished' = {i \in DOMAIN futures : futures[i].state = "FINISHED"}
  /\ pending' = {i \in DOMAIN futures : futures[i].state # "FINISHED"}
  /\ waiter' = [installed |-> TRUE, finished_futures |-> << >>]
  /\ pc' = "drain"
  /\ UNCHANGED <<config_verbose, envVars, run_api_params, evaluation_run, original_verbose,
                 scores, outputs, pbar, exc, ret, poolVars, drained>>

\* A waiter list served newest first.
Yieldable_Lifo ==
  IF finished # {} THEN finished
  ELSE IF waiter.finished_futures # << >>
         THEN {waiter.finished_futures[Len(waiter.finished_futures)]}
  ELSE {}

\* The futures as_completed may yield next: any of those found finished at the
\* call, then the others in the order they finished.
Yieldable ==
  IF finished # {} THEN finished
  ELSE IF waiter.finished_futures # << >> THEN {Head(waiter.finished_futures)}
  ELSE {}

\* A merge that assigns the task's list instead of extending the accumulator.
ExtendScores_Overwrite(sc, result) ==
  [name \in (DOMAIN sc) \cup (DOMAIN result) |->
     IF name \in DOMAIN result THEN result[name] ELSE sc[name]]

\* scores[name].extend(value) for every (name, value) of a task's result.
ExtendScores(sc, result) ==
  [name \in (DOMAIN sc) \cup (DOMAIN result) |->
     IF name \in DOMAIN result THEN ScoresGet(sc, name) \o result[name] ELSE sc[name]]

\* outputs.append(output): the task's list is nested as one element.
ExtendOutputs_Append(outs, output) == Append(outs, output)

\* outputs.extend(output)
ExtendOutputs(outs, output) == outs \o output

\* A result() that isolates a failed task and reports it as an empty result.
FutureResult_Isolated(f) ==
  [raised |-> FALSE, exception |-> NoExc, output |-> f.result.outputs,
   result |-> f.result.scores]

\* future.result(): the task's (output, result) pair, or its exception re-raised.
FutureResult(f) ==
  IF f.exception # NoExc
    THEN [raised |-> TRUE, exception |-> f.exception, output |-> << >>, result |-> EmptyDict]
    ELSE [raised |-> FALSE, exception |-> NoExc, output |-> f.result.outputs,
          result |-> f.result.scores]

\* A progress update that skips the mean and the preview of an empty list.
ProgressError_Guarded(sc, output) == NoExc

\* The progress update after a merge: statistics.mean raises StatisticsError on
\* an empty score list, output[0] raises IndexError on an empty output list.
ProgressError(sc, output) ==
  IF DOMAIN self.criteria # {}
    THEN IF \E name \in DOMAIN self.criteria : ScoresGet(sc, name) = << >>
           THEN "StatisticsError"
           ELSE IF output = << >> THEN "IndexError" ELSE NoExc
    ELSE IF output = << >> THEN "IndexError" ELSE NoExc

\* Reading scores[name] for every criterion inserts the missing names.
TouchScores(sc) ==
  IF DOMAIN self.criteria # {}
    THEN [name \in (DOMAIN sc) \cup (DOMAIN self.criteria) |-> ScoresGet(sc, name)]
    ELSE sc

\* One iteration of "for future in as_completed(futures)".
DrainOne ==
  /\ pc = "drain"
  /\ \E i \in Yieldable :
       /\ finished' = finished \ {i}
       /\ pending' = pending \ {i}
       /\ drained' = Append(drained, i)
       /\ LET others(j) == j # i
              rest == IF finished # {} THEN waiter.finished_futures
                      ELSE SelectSeq(waiter.finished_futures, others)
              r == FutureResult(futures[i])
          IN IF r.raised
               THEN /\ exc' = r.exception
                    /\ pc' = "shutdown"
                    /\ waiter' = [installed |-> FALSE, finished_futures |-> rest]
                    /\ UNCHANGED <<scores, outputs, pbar>>
               ELSE LET merged == ExtendScores(scores, r.result)
                        perr == ProgressError(merged, r.output)
                    IN /\ scores' = TouchScores(merged)
                       /\ outputs' = ExtendOutputs(outputs, r.output)
                       /\ pbar' = pbar + 1
                       /\ exc' = perr
                       /\ pc' = IF perr = NoExc THEN "drain" ELSE "shutdown"
                       /\ waiter' = [installed |-> (perr = NoExc), finished_futures |-> rest]
  /\ UNCHANGED <<config_verbose, envVars, run_api_params, evaluation_run, original_verbose,
                 ret, poolVars>>

\* An iterator that stops once the futures found finished at the call are served.
LoopExhausted_IgnoresPending == finished = {}

\* as_completed stops when the futures found finished at the call have been
\* yielded and no future is pending any more.
LoopExhausted == finished = {} /\ pending = {}

\* as_completed is exhausted: every future was yielded.
DrainEnd ==
  /\ pc = "drain"
  /\ LoopExhausted
  /\ waiter' = [installed |-> FALSE, finished_futures |-> << >>]
  /\ pc' = "shutdown"
  /\ UNCHANGED <<config_verbose, envVars, run_api_params, evaluation_run, original_verbose,
                 scores, outputs, pbar, exc, ret, poolVars, finished, pending, drained>>

\* A shutdown that does not wait for the workers.
WorkersJoined_NoWait == TRUE

\* Every worker thread has exited: the queue is empty and no task is running.
WorkersJoined ==
  /\ work_queue = << >>
  /\ Executing = {}
  /\ releasing = 0

\* A shutdown that cancels the queued tasks and joins only the running ones.
Shutdown_CancelFutures ==
  /\ pc = "shutdown"
  /\ Executing = {}
  /\ releasing = 0
  /\ work_queue' = << >>
  /\ pc' = IF exc = NoExc THEN "attach" ELSE "finally"
  /\ UNCHANGED <<config_verbose, envVars, run_api_params, evaluation_run, original_verbose,
                 scores, outputs, pbar, exc, ret, futures, threads, idle, releasing, task,
                 lmp_calls, acVars>>

\* Leaving "with ThreadPoolExecutor(...)": shutdown(wait=True) joins the worker
\* threads, which exit only once the work queue is empty.
Shutdown ==
  /\ pc = "shutdown"
  /\ WorkersJoined
  /\ pc' = IF exc = NoExc THEN "attach" ELSE "finally"
  /\ UNCHANGED <<config_verbose, envVars, run_api_params, evaluation_run, original_verbose,
                 scores, outputs, pbar, exc, ret, poolVars, acVars>>

\* evaluation_run.outputs = outputs; if self.criteria: evaluation_run.scores = scores
Attach ==
  /\ pc = "attach"
  /\ evaluation_run' =
       [evaluation_run EXCEPT
          !.outputs = outputs,
          !.scores = IF DOMAIN self.criteria # {} THEN scores ELSE @]
  /\ pc' = "end_time"
  /\ UNCHANGED <<config_verbose, envVars, run_api_params, original_verbose, scores, outputs,
                 pbar, exc, ret, poolVars, acVars>>

\* evaluation_run.end_time = datetime.now(): the clock has advanced by some
\* amount, possibly none, since start_time was read.
SetEndTime ==
  /\ pc = "end_time"
  /\ \E elapsed \in 0..MaxElapsed :
       evaluation_run' =
         [evaluation_run EXCEPT
            !.end_time_set = TRUE,
            !.end_time = evaluation_run.start_time + elapsed]
  /\ pc' = "finally"
  /\ UNCHANGED <<config_verbose, envVars, run_api_params, original_verbose, scores, outputs,
                 pbar, exc, ret, poolVars, acVars>>

\* A restore that is skipped when an exception is propagating.
RestoredVerbose_OnSuccessOnly == IF exc = NoExc THEN original_verbose ELSE config_verbose

\* finally: config.verbose = original_verbose; then run() returns or re-raises.
RestoredVerbose == original_verbose

Finally ==
  /\ pc = "finally"
  /\ config_verbose' = RestoredVerbose
  /\ ret' = IF exc = NoExc THEN evaluation_run ELSE None
  /\ pc' = "done"
  /\ UNCHANGED <<envVars, run_api_params, evaluation_run, original_verbose, scores, outputs,
                 pbar, exc, poolVars, acVars>>

\* ------------------------------------------------------- the worker threads
\* Future.set_result / set_exception: the future becomes FINISHED and an
\* installed waiter records it.
SetFinished(fs, i, exception, result) ==
  [fs EXCEPT ![i] = [state |-> "FINISHED", exception |-> exception, result |-> result]]

Notify(w, i) ==
  IF w.installed
    THEN [w EXCEPT !.finished_futures = Append(@, i)]
    ELSE w

\* A dispatch without the final else branch: every input is passed to the LMP.
Dispatch_NoCheck(dp) == "call"

\* How _process_single starts on a datapoint: a list or dict input invokes the
\* LMP, anything else raises ValueError("Invalid input type").
Dispatch(dp) ==
  IF dp.input.kind = "list" THEN "call"
  ELSE IF dp.input.kind = "dict" THEN "call"
  ELSE "invalid"

\* A worker takes the next work item (FIFO) and runs _process_single up to the
\* LMP invocation.
WorkerTake ==
  /\ work_queue # << >>
  /\ Cardinality(Executing) + releasing < threads
  /\ LET i == Head(work_queue)
         dp == self.dataset[i]
     IN /\ work_queue' = Tail(work_queue)
        /\ IF Dispatch(dp) = "call"
             THEN /\ lmp_calls' = [lmp_calls EXCEPT ![i] = Append(@, run_api_params)]
                  /\ task' = [task EXCEPT ![i].phase = "lmp"]
                  /\ futures' = [futures EXCEPT ![i].state = "RUNNING"]
                  /\ UNCHANGED <<releasing, waiter>>
             ELSE /\ futures' = SetFinished(futures, i, "ValueError:input", NewFuture.result)
                  /\ task' = [task EXCEPT ![i].phase = "done"]
                  /\ waiter' = Notify(waiter, i)
                  /\ releasing' = releasing + 1
                  /\ UNCHANGED lmp_calls
  /\ UNCHANGED <<config_verbose, envVars, coordVars, threads, idle, finished, pending, drained>>

\* A normalisation that wraps every result, lists included.
Normalize_AlwaysWrap(r) == <<r.val>>

\* if not isinstance(lmp_output, list): lmp_output = [lmp_output]
Normalize(r) == IF r.tag = "list" THEN r.val ELSE <<r.val>>

\* The LMP invocation of task i returns (and its output is normalised) or raises.
LmpReturn(i) ==
  /\ i \in DOMAIN task
  /\ task[i].phase = "lmp"
  /\ LET r == Lmp(self.dataset[i].input.arg, lmp_calls[i][Len(lmp_calls[i])])
     IN /\ r.tag # "never"
        /\ IF r.tag = "raise"
             THEN /\ futures' = SetFinished(futures, i, "UpstreamError", NewFuture.result)
                  /\ task' = [task EXCEPT ![i].phase = "done"]
                  /\ waiter' = Notify(waiter, i)
                  /\ releasing' = releasing + 1
             ELSE /\ task' = [task EXCEPT
                                ![i] = [phase |-> "scoring", lmp_output |-> Normalize(r)]]
                  /\ UNCHANGED <<futures, waiter, releasing>>
  /\ UNCHANGED <<config_verbose, envVars, coordVars, work_queue, threads, idle, lmp_calls,
                 finished, pending, drained>>

\* Score lists built back to front.
ScoreAll_Reversed(dp, lmp_output) ==
  IF DOMAIN self.criteria # {}
    THEN [name \in DOMAIN self.criteria |->
            [k \in 1..Len(lmp_output) |->
               Float(CritCall(self.criteria[name], dp,
                              lmp_output[Len(lmp_output) + 1 - k])).v]]
    ELSE EmptyDict

\* {name: [float(crit(data_point, output)) for output in lmp_output] ...}, or {}
\* when no criteria are configured.
ScoreAll(dp, lmp_output) ==
  IF DOMAIN self.criteria # {}
    THEN [name \in DOMAIN self.criteria |->
            [k \in 1..Len(lmp_output) |->
               Float(CritCall(self.criteria[name], dp, lmp_output[k])).v]]
    ELSE EmptyDict

ScoreFails(dp, lmp_output) ==
  \E name \in DOMAIN self.criteria : \E k \in 1..Len(lmp_output) :
     ~Float(CritCall(self.criteria[name], dp, lmp_output[k])).ok

\* A task that also appends its outputs to the shared outputs list itself.
Score_SharedAppend(i) ==
  /\ i \in DOMAIN task
  /\ task[i].phase = "scoring"
  /\ LET dp == self.dataset[i]
         out == task[i].lmp_output
     IN /\ IF ScoreFails(dp, out)
             THEN futures' = SetFinished(futures, i, "ValueError:float", NewFuture.result)
             ELSE futures' = SetFinished(futures, i, NoExc,
                                         [outputs |-> out, scores |-> ScoreAll(dp, out)])
        /\ outputs' = outputs \o out
  /\ task' = [task EXCEPT ![i].phase = "done"]
  /\ waiter' = Notify(waiter, i)
  /\ releasing' = releasing + 1
  /\ UNCHANGED <<config_verbose, envVars, pc, run_api_params, evaluation_run,
                 original_verbose, scores, pbar, exc, ret, work_queue, threads, idle,
                 lmp_calls, finished, pending, drained>>

\* Task i applies the criteria and returns (lmp_output, scores), or raises.
Score(i) ==
  /\ i \in DOMAIN task
  /\ task[i].phase = "scoring"
  /\ LET dp == self.dataset[i]
         out == task[i].lmp_output
     IN IF ScoreFails(dp, out)
          THEN futures' = SetFinished(futures, i, "ValueError:float", NewFuture.result)
          ELSE futures' = SetFinished(futures, i, NoExc,
                                      [outputs |-> out, scores |-> ScoreAll(dp, out)])
  /\ task' = [task EXCEPT ![i].phase = "done"]
  /\ waiter' = Notify(waiter, i)
  /\ releasing' = releasing + 1
  /\ UNCHANGED <<config_verbose, envVars, coordVars, work_queue, threads, idle, lmp_calls,
                 finished, pending, drained>>

\* After work_item.run() the worker releases the idle semaphore and goes back to
\* the queue.
WorkerRelease ==
  /\ releasing > 0
  /\ releasing' = releasing - 1
  /\ idle' = idle + 1
  /\ UNCHANGED <<config_verbose, envVars, coordVars, futures, work_queue, threads, task,
                 lmp_calls, acVars>>

\* ------------------------------------------------------------------ Next
Next ==
  \/ RunPrepare
  \/ SaveVerbose
  \/ SetVerbose
  \/ CreatePool
  \/ Submit
  \/ AsCompleted
  \/ DrainOne
  \/ DrainEnd
  \/ Shutdown
  \/ Attach
  \/ SetEndTime
  \/ Finally
  \/ WorkerTake
  \/ \E i \in DOMAIN task : LmpReturn(i)
  \/ \E i \in DOMAIN task : Score(i)
  \/ WorkerRelease

Spec == Init /\ [][Next]_vars

SpecVerbose == InitVerbose /\ [][Next]_vars

SpecParams == InitParams /\ [][Next]_vars

\* The steps of the thread that called run(), and those of the pool's workers.
Coordinator ==
  \/ RunPrepare \/ SaveVerbose \/ SetVerbose \/ CreatePool \/ Submit \/ AsCompleted
  \/ DrainOne \/ DrainEnd \/ Shutdown \/ Attach \/ SetEndTime \/ Finally

Workers ==
  \/ WorkerTake
  \/ \E i \in DOMAIN task : LmpReturn(i)
  \/ \E i \in DOMAIN task : Score(i)
  \/ WorkerRelease

\* Runs over rows that succeed, raise in the LMP, fail in a criterion or hang in
\* the LMP, with the threads scheduled fairly: a thread that can take a step
\* eventually takes one.
LiveDatasets == SeqsUpTo({DpAnn, DpBo, DpErr, DpHang}, MaxRows)

InitLive == InitOn(LiveDatasets, {FALSE}, {EmptyDict, [grade |-> FnGrade]}, {None}, {None},
                   0..MaxWorkers, {1})

SpecLive == InitLive /\ [][Next]_vars /\ WF_vars(Coordinator) /\ WF_vars(Workers)

\* ------------------------------------------------- a second, overlapping run
\* The other call's steps on config.verbose; between OtherSet and OtherRestore
\* it is inside its try block, which never writes the flag and leaves, by
\* return or by exception, through the finally block.
\* original_verbose = config.verbose
OtherSave ==
  /\ other.pc = "save"
  /\ other' = [other EXCEPT !.original_verbose = config_verbose, !.pc = "set"]
  /\ UNCHANGED <<config_verbose, verbose0, self, args, coordVars, poolVars, acVars>>

\* config.verbose = verbose
OtherSet ==
  /\ other.pc = "set"
  /\ config_verbose' = other.verbose
  /\ other' = [other EXCEPT !.pc = "try"]
  /\ UNCHANGED <<verbose0, self, args, coordVars, poolVars, acVars>>

\* finally: config.verbose = original_verbose
OtherRestore ==
  /\ other.pc = "try"
  /\ config_verbose' = other.original_verbose
  /\ other' = [other EXCEPT !.pc = "done"]
  /\ UNCHANGED <<verbose0, self, args, coordVars, poolVars, acVars>>

\* Two run() calls about to start, with every value of the flag and of the two
\* verbose arguments.
InitOverlap ==
  /\ InitRun(Datasets, BOOLEAN, {EmptyDict}, {None}, {None}, {1}, {1})
  /\ other \in [pc : {"save"}, verbose : BOOLEAN, original_verbose : {FALSE}]

NextOverlap ==
  \/ Next
  \/ OtherSave
  \/ OtherSet
  \/ OtherRestore

SpecOverlap == InitOverlap /\ [][NextOverlap]_vars

\* ------------------------------------------------- criteria validation
\* What may be passed as criteria: a list of objects, a dict of objects, or
\* something that is neither (None, a string).
DictNames == {"length", "quality"}

CriteriaInputs ==
  {[type |-> "list", items |-> s] : s \in SeqsUpTo(Objects, MaxCriteria)}
    \cup {[type |-> "dict", items |-> f] :
            f \in UNION {[D -> Objects] : D \in SUBSET DictNames}}
    \cup {[type |-> "NoneType", items |-> << >>], [type |-> "str", items |-> << >>]}

\* A name test that lets lambdas through.
NamedCriterion_AllowLambda(crit) == crit.hasname

\* hasattr(crit, '__name__') and crit.__name__ != '<lambda>'
NamedCriterion(crit) == crit.hasname /\ crit.name # "<lambda>"

VcError(e) == [ok |-> FALSE, value |-> EmptyDict, error |-> e]

\* The list branch: each entry is checked in turn and inserted under its name.
RECURSIVE ValidateList(_, _)
ValidateList(items, criteria_dict) ==
  IF items = << >> THEN [ok |-> TRUE, value |-> criteria_dict, error |-> NoExc]
  ELSE LET crit == Head(items)
       IN IF ~crit.callable THEN VcError("ValueError:callable")
          ELSE IF ~NamedCriterion(crit) THEN VcError("ValueError:name")
          ELSE ValidateList(Tail(items), DictSet(criteria_dict, crit.name, crit))

validate_criteria(criteria) ==
  IF criteria.type = "list" THEN ValidateList(criteria.items, EmptyDict)
  ELSE IF criteria.type = "dict"
    THEN IF \E name \in DOMAIN criteria.items : ~criteria.items[name].callable
           THEN VcError("ValueError:callable")
           ELSE [ok |-> TRUE, value |-> criteria.items, error |-> NoExc]
  ELSE VcError("ValueError:type")

\* An Evaluation under construction: args holds the criteria passed in.
InitVC ==
  /\ config_verbose = FALSE
  /\ verbose0 = config_verbose
  /\ self = [name |-> "eval", dataset |-> << >>, criteria |-> EmptyDict,
             default_api_params |-> None]
  /\ args \in [criteria : CriteriaInputs]
  /\ pc = "validate"
  /\ NoRunYet
  /\ other = NoOtherRun

\* The field validator runs: the criteria field is set, or ValueError is raised.
ValidateCriteria ==
  /\ pc = "validate"
  /\ LET r == validate_criteria(args.criteria)
     IN IF r.ok
          THEN self' = [self EXCEPT !.criteria = r.value] /\ exc' = exc /\ pc' = "validated"
          ELSE self' = self /\ exc' = r.error /\ pc' = "config_error"
  /\ UNCHANGED <<config_verbose, verbose0, args, other, run_api_params, evaluation_run,
                 original_verbose, scores, outputs, pbar, ret, poolVars, acVars>>

NextVC == ValidateCriteria

SpecVC == InitVC /\ [][NextVC]_vars

\* ============================================================== properties
Done == pc = "done"
Returned == pc = "done" /\ exc = NoExc
Raised == pc = "done" /\ exc # NoExc

Range(s) == {s[k] : k \in DOMAIN s}
Count(s, v) == Cardinality({k \in DOMAIN s : s[k] = v})

\* The outputs the LMP produced for row i (normalised), once its call returned.
RowOutputs(i) == IF i \in DOMAIN task THEN task[i].lmp_output ELSE << >>

RECURSIVE SumOutputs(_)
SumOutputs(n) == IF n = 0 THEN 0 ELSE SumOutputs(n - 1) + Len(RowOutputs(n))

TotalOutputs == SumOutputs(Len(self.dataset))

\* Every (datapoint, output) pair of the run.
OutputPairs == UNION {{<<i, k>> : k \in 1..Len(RowOutputs(i))} : i \in Rows}

ExpectedScore(name, p) ==
  Float(CritCall(self.criteria[name], self.dataset[p[1]], RowOutputs(p[1])[p[2]])).v

Failed(i) == i \in DOMAIN futures /\ futures[i].state = "FINISHED" /\ futures[i].exception # NoExc

\* C1: when a run() has exited, by returning or by raising, config.verbose equals
\* the value it had immediately before the call, whatever the verbose argument.
C1_VerboseRestored == Done => config_verbose = verbose0

\* A run that raised because a task failed in the pool, with a verbose argument
\* that differs from the flag's previous value.
C1_Witness ==
  /\ Raised
  /\ exc = "UpstreamError"
  /\ args.verbose # verbose0
  /\ original_verbose = verbose0

\* C2: in a run that returns with criteria configured, every criterion's score
\* list has as many entries as outputs were produced over all datapoints, and
\* holds, as a multiset, criteria[name](datapoint, output) over every
\* (datapoint, output) pair.
C2_ScoresMultiset ==
  (Returned /\ DOMAIN self.criteria # {}) =>
    \A name \in DOMAIN self.criteria :
      LET s == ScoresGet(ret.scores, name)
          expected == {ExpectedScore(name, p) : p \in OutputPairs}
      IN /\ Len(s) = TotalOutputs
         /\ \A v \in Range(s) \cup expected :
              Count(s, v) = Cardinality({p \in OutputPairs : ExpectedScore(name, p) = v})

\* Two workers, two datapoints merged against dataset order, several outputs each.
C2_Witness ==
  /\ Returned
  /\ DOMAIN self.criteria = {"length", "match"}
  /\ args.n_workers = 2
  /\ drained = <<2, 1>>
  /\ self.dataset[1] # self.dataset[2]
  /\ Len(ret.outputs) = 4

\* C3: in a run that returns with no criteria configured, the record's outputs
\* list is as long as the sum of the per-datapoint output counts and its scores
\* mapping is empty.
C3_OutputsLength ==
  (Returned /\ DOMAIN self.criteria = {}) =>
    /\ Len(ret.outputs) = TotalOutputs
    /\ ret.scores = EmptyDict

C3_Witness ==
  /\ Returned
  /\ DOMAIN self.criteria = {}
  /\ Len(self.dataset) = 2
  /\ TotalOutputs = 4
  /\ args.n_workers = 2

\* The per-datapoint blocks of outputs, concatenated in a given order of rows.
RECURSIVE ConcatOutputs(_)
ConcatOutputs(order) ==
  IF order = << >> THEN << >>
  ELSE RowOutputs(Head(order)) \o ConcatOutputs(Tail(order))

RowScores(name, i) ==
  [k \in 1..Len(RowOutputs(i)) |-> ExpectedScore(name, <<i, k>>)]

RECURSIVE ConcatScores(_, _)
ConcatScores(name, order) ==
  IF order = << >> THEN << >>
  ELSE RowScores(name, Head(order)) \o ConcatScores(name, Tail(order))

DatasetOrder == [i \in Rows |-> i]

Min(S) == CHOOSE x \in S : \A y \in S : x <= y

\* C4 as stated: with n_workers = 1 a returned run's outputs and scores are in
\* dataset order (so that two runs yield identical lists).
C4_DatasetOrder ==
  (Returned /\ args.n_workers = 1) =>
    /\ ret.outputs = ConcatOutputs(DatasetOrder)
    /\ \A name \in DOMAIN self.criteria :
         ScoresGet(ret.scores, name) = ConcatScores(name, DatasetOrder)

\* With one worker the tasks finish in submission order, and a returned run holds
\* each datapoint's block of outputs and scores once, in draining order.
C4_Blocks ==
  args.n_workers = 1 =>
    /\ \A i \in DOMAIN futures : \A j \in DOMAIN futures :
         (i < j /\ futures[j].state = "FINISHED") => futures[i].state = "FINISHED"
    /\ Returned =>
         /\ Range(drained) = Rows
         /\ Len(drained) = Len(self.dataset)
         /\ ret.outputs = ConcatOutputs(drained)
         /\ \A name \in DOMAIN self.criteria :
              ScoresGet(ret.scores, name) = ConcatScores(name, drained)

\* Once the futures found finished at the as_completed call are used up, the
\* loop drains the remaining rows in dataset order.
C4_LateInOrder ==
  (args.n_workers = 1 /\ pc = "drain" /\ finished = {} /\ drained' # drained) =>
    drained'[Len(drained')] = Min(Rows \ Range(drained))

\* C4 (amended): with n_workers = 1 tasks finish in submission order and a
\* returned run holds every datapoint's block of outputs and scores exactly once,
\* so two runs agree block for block; the blocks of tasks that had finished
\* before the draining loop started come in arbitrary order, the later ones in
\* dataset order.
C4_Amended == []C4_Blocks /\ [][C4_LateInOrder]_vars

\* A returned one-worker run whose outputs are not in dataset order.
C4_Witness ==
  /\ Returned
  /\ args.n_workers = 1
  /\ drained = <<2, 1>>
  /\ ret.outputs # ConcatOutputs(DatasetOrder)

LastDrained == drained[Len(drained)]

ProgressErrors == {"IndexError", "StatisticsError"}

\* A failed task is run once and never queued again.
NoRetry ==
  \A i \in DOMAIN futures :
    Failed(i) => /\ Len(lmp_calls[i]) <= 1
                 /\ i \notin Range(work_queue)
                 /\ task[i].phase = "done"

\* C5 as stated: when a task has failed, run() raises the underlying error of a
\* failed task, hands out no record and retries nothing.
C5_TaskErrorRaised ==
  /\ NoRetry
  /\ (Done /\ \E i \in DOMAIN futures : Failed(i)) =>
       /\ Raised
       /\ ret = None
       /\ exc \in {futures[i].exception : i \in {j \in DOMAIN futures : Failed(j)}}

\* C5 (amended): when a task has failed, run() raises, hands out no record and
\* retries nothing; the error raised is that of the first failed task the
\* draining loop reaches, unless the progress update of a task drained before
\* it fails on an empty output list, and then that progress error is raised.
C5_Amended ==
  /\ NoRetry
  /\ (Done /\ \E i \in DOMAIN futures : Failed(i)) =>
       /\ Raised
       /\ ret = None
       /\ drained # << >>
       /\ \A k \in 1..(Len(drained) - 1) : ~Failed(drained[k])
       /\ IF Failed(LastDrained)
            THEN exc = futures[LastDrained].exception
            ELSE /\ exc \in ProgressErrors
                 /\ futures[LastDrained].result.outputs = << >>

\* A run aborted by a scoring error of the second task drained, after the first
\* task's results had been merged.
C5_Witness ==
  /\ Raised
  /\ exc = "ValueError:float"
  /\ Len(drained) = 2
  /\ Failed(LastDrained)
  /\ outputs # << >>

InvalidRows == {i \in Rows : self.dataset[i].input.kind \notin {"list", "dict"}}

\* No output of an invalid row is ever accumulated, and the LMP is never called
\* for it; its task fails with the invalid-input error.
InvalidRowsRejected ==
  \A i \in InvalidRows :
    /\ lmp_calls[i] = << >>
    /\ (i \in DOMAIN futures /\ futures[i].state = "FINISHED")
          => futures[i].exception = "ValueError:input"
    /\ \A k \in DOMAIN outputs : outputs[k].text # self.dataset[i].input.arg

\* C6 as stated: a datapoint whose input is neither a list nor a dict fails
\* before the LMP is invoked, the run aborts with that invalid-input error, and
\* none of its outputs is accumulated.
C6_AbortsWithInvalidInput ==
  (args.n_workers >= 1 /\ InvalidRows # {}) =>
    /\ InvalidRowsRejected
    /\ Done => (Raised /\ ret = None /\ exc = "ValueError:input")

\* C6 (amended): such a datapoint's task fails with the invalid-input error
\* before the LMP is invoked and none of its outputs is accumulated; the run
\* aborts, with that error exactly when the invalid datapoint's task is the
\* first failure the draining loop meets, and otherwise with the error met
\* before it.
C6_Amended ==
  (args.n_workers >= 1 /\ InvalidRows # {}) =>
    /\ InvalidRowsRejected
    /\ Done => /\ Raised
               /\ ret = None
               /\ drained # << >>
               /\ (exc = "ValueError:input") <=> (LastDrained \in InvalidRows)

\* A run that merged a valid datapoint and was then aborted by the invalid one.
C6_Witness ==
  /\ Raised
  /\ exc = "ValueError:input"
  /\ self.dataset = <<DpAnn, DpNum>>
  /\ drained = <<1, 2>>
  /\ outputs # << >>
  /\ lmp_calls[2] = << >>

\* C7: run_api_params is the key-wise merge of default_api_params and the
\* caller's api_params with the caller winning, n is forced to
\* samples_per_datapoint when that exceeds 1 and left as merged otherwise, and
\* every LMP invocation and the record hold this mapping.
C7_MergedParams ==
  pc # "start" =>
    LET d == OrEmpty(self.default_api_params)
        a == OrEmpty(args.api_params)
        forced == args.samples_per_datapoint > 1
    IN /\ DOMAIN run_api_params =
            (DOMAIN d) \cup (DOMAIN a) \cup (IF forced THEN {"n"} ELSE {})
       /\ \A k \in DOMAIN run_api_params :
            run_api_params[k] =
              IF forced /\ k = "n" THEN args.samples_per_datapoint
              ELSE IF k \in DOMAIN a THEN a[k] ELSE d[k]
       /\ \A i \in Rows : \A j \in DOMAIN lmp_calls[i] : lmp_calls[i][j] = run_api_params
       /\ evaluation_run.api_params = run_api_params
       /\ Returned => ret.api_params = run_api_params

\* Both inputs carry n and temperature, the sample count is forced, and the LMP
\* has been invoked.
C7_Witness ==
  /\ Returned
  /\ self.default_api_params = [n |-> 3, temperature |-> 1]
  /\ args.api_params = [n |-> 1, temperature |-> 2]
  /\ args.samples_per_datapoint = 2
  /\ ret.api_params = [n |-> 2, temperature |-> 2]
  /\ \E i \in Rows : Len(lmp_calls[i]) = 1

\* C8 as stated: the returned record carries the Evaluation's dataset, and its
\* inputs projection lists every datapoint's input in dataset order.
C8_RecordCarriesDataset ==
  Returned =>
    /\ ret.dataset = self.dataset
    /\ Inputs(ret) = [i \in Rows |-> self.dataset[i].input]

\* C10: at most n_workers tasks are ever inside _process_single at once.
C10_BoundedWorkers ==
  /\ Cardinality(Executing) <= args.n_workers
  /\ threads <= args.n_workers

\* One worker is busy with a task while another task waits in the queue.
C10_Witness ==
  /\ args.n_workers = 1
  /\ Cardinality(Executing) = 1
  /\ work_queue # << >>

ConfigErrors == {"ValueError:callable", "ValueError:name", "ValueError:type"}

Rejected == pc = "config_error" /\ exc \in ConfigErrors /\ self.criteria = EmptyDict

\* C9: a dict whose values are all callable is returned as it is; a list of
\* named callables becomes the mapping from each callable's name to it, a later
\* entry replacing an earlier one of the same name; a list entry that is not
\* callable or has no name or is a lambda, a dict value that is not callable,
\* and an input that is neither a list nor a dict raise and yield no mapping.
C9_Validation ==
  pc # "validate" =>
    LET c == args.criteria
        items == c.items
    IN IF c.type = "dict"
         THEN IF \A name \in DOMAIN items : items[name].callable
                THEN pc = "validated" /\ self.criteria = items
                ELSE Rejected
       ELSE IF c.type = "list"
         THEN IF \A k \in DOMAIN items :
                   items[k].callable /\ items[k].hasname /\ items[k].name # "<lambda>"
                THEN /\ pc = "validated"
                     /\ DOMAIN self.criteria = {items[k].name : k \in DOMAIN items}
                     /\ \A k \in DOMAIN items :
                          (\A j \in DOMAIN items : j > k => items[j].name # items[k].name)
                             => self.criteria[items[k].name] = items[k]
                ELSE Rejected
       ELSE Rejected

\* Two different callables with the same name in a list: the later one is kept.
C9_Witness ==
  /\ pc = "validated"
  /\ args.criteria = [type |-> "list", items |-> <<FnLength, FnLength2>>]
  /\ self.criteria = [length |-> FnLength2]

\* Every task's result has been merged into the accumulators.
AllMerged == pbar = Len(self.dataset) /\ Range(drained) = Rows

\* C11: the record's end_time is None from the record's creation on; it is set
\* only when run() is completing successfully, with every task merged and the
\* outputs and (if criteria are configured) the scores already attached, to a
\* time not earlier than start_time; a run that raises never sets it.
C11_EndTime ==
  /\ evaluation_run # None =>
       IF evaluation_run.end_time_set
         THEN /\ pc \in {"finally", "done"}
              /\ exc = NoExc
              /\ AllMerged
              /\ evaluation_run.outputs = outputs
              /\ (DOMAIN self.criteria # {} => evaluation_run.scores = scores)
              /\ evaluation_run.end_time >= evaluation_run.start_time
         ELSE ~Returned
  /\ Raised => evaluation_run # None /\ ~evaluation_run.end_time_set

\* A run over two rows with criteria that returned, the clock having advanced.
C11_Witness ==
  /\ Returned
  /\ Len(self.dataset) = MaxRows
  /\ DOMAIN self.criteria # {}
  /\ ret.end_time_set
  /\ ret.end_time > ret.start_time
  /\ ret.scores = scores

\* What task i returns when it succeeds, computed from its own row and the
\* run's api_params alone.
OwnResult(i) ==
  LET dp == self.dataset[i]
      out == Normalize(Lmp(dp.input.arg, run_api_params))
  IN [outputs |-> out, scores |-> ScoreAll(dp, out)]

\* C12: the scores and outputs accumulators and the progress counter change only
\* in a step of the coordinating thread's draining loop (one more future
\* drained); no step of a worker task changes them, and a task that succeeds
\* returns the (outputs, scores) pair of its own row, whatever the accumulators
\* and the other tasks hold.
C12_SingleWriter ==
  [][ /\ (scores' # scores \/ outputs' # outputs \/ pbar' # pbar) =>
           /\ pc = "drain"
           /\ Len(drained') = Len(drained) + 1
           /\ task' = task
           /\ futures' = futures
      /\ (task' # task) => (scores' = scores /\ outputs' = outputs /\ pbar' = pbar)
      /\ \A i \in DOMAIN futures' :
           (futures'[i].state = "FINISHED" /\ futures'[i].exception = NoExc)
              => futures'[i].result = OwnResult(i) ]_vars

\* The coordinating thread has merged one task while a worker is still inside
\* another.
C12_Witness ==
  /\ pc = "drain"
  /\ pbar = 1
  /\ outputs # << >>
  /\ Executing # {}

\* C13: in a run() that returns, one task was submitted per dataset row, the LMP
\* was invoked exactly once for each row with the run's api_params, and every
\* task was drained and merged exactly once: the progress counter equals the
\* number of rows and the accumulators hold each row's block once.
C13_ExactlyOnce ==
  Returned =>
    /\ Len(futures) = Len(self.dataset)
    /\ Len(task) = Len(self.dataset)
    /\ \A i \in Rows :
         /\ lmp_calls[i] = <<run_api_params>>
         /\ Count(drained, i) = 1
         /\ task[i].phase = "done"
    /\ Len(drained) = Len(self.dataset)
    /\ pbar = Len(self.dataset)
    /\ outputs = ConcatOutputs(drained)
    /\ \A name \in DOMAIN self.criteria :
         ScoresGet(scores, name) = ConcatScores(name, drained)

\* Two workers, two rows of two samples each, merged against submission order.
C13_Witness ==
  /\ Returned
  /\ args.n_workers = MaxWorkers
  /\ drained = <<2, 1>>
  /\ Len(outputs) = 4
  /\ DOMAIN self.criteria # {}

\* What the LMP returns for row i under the run's api_params.
LmpResult(i) == Lmp(self.dataset[i].input.arg, run_api_params)

\* Rows on which the LMP returns as many outputs as the sample-count field asks.
Honoured == {i \in Rows : self.dataset[i].input.arg \notin {"err", "nil"}}

\* Tasks whose LMP invocation has returned.
PastLmp(i) ==
  \/ task[i].phase = "scoring"
  \/ futures[i].state = "FINISHED" /\ futures[i].exception \in {NoExc, "ValueError:float"}

Succeeded(i) == futures[i].state = "FINISHED" /\ futures[i].exception = NoExc

\* C14 as stated, its last clause: a datapoint on which the LMP honours the
\* sample-count field contributes samples_per_datapoint outputs.
C14_SamplesPerDatapoint ==
  \A i \in DOMAIN task :
    (i \in Honoured /\ Succeeded(i)) =>
       Len(futures[i].result.outputs) = args.samples_per_datapoint

\* C14, amended: the processor always returns a sequence (a result that is not a
\* list is wrapped into a one-element list, a list of length k is returned as it
\* is), with k scores per criterion, the j-th being the criterion applied to the
\* j-th output; where the LMP honours the sample-count field the datapoint
\* contributes as many outputs as the merged api_params' n says (1 when absent),
\* which is samples_per_datapoint whenever samples_per_datapoint > 1.
C14_Amended ==
  \A i \in DOMAIN task :
    LET r == LmpResult(i)
        dp == self.dataset[i]
        out == task[i].lmp_output
    IN /\ PastLmp(i) =>
            /\ r.tag = "list" => (Len(out) = Len(r.val) /\ out = r.val)
            /\ r.tag = "scalar" => (Len(out) = 1 /\ out[1] = r.val)
            /\ i \in Honoured =>
                 /\ Len(out) = SampleCount(run_api_params)
                 /\ args.samples_per_datapoint > 1 =>
                      Len(out) = args.samples_per_datapoint
       /\ Succeeded(i) =>
            /\ futures[i].result.outputs = out
            /\ DOMAIN futures[i].result.scores = DOMAIN self.criteria
            /\ \A name \in DOMAIN self.criteria :
                 /\ Len(futures[i].result.scores[name]) = Len(out)
                 /\ \A j \in 1..Len(out) :
                      futures[i].result.scores[name][j]
                        = Float(CritCall(self.criteria[name], dp, out[j])).v

\* A task that returned three outputs, scored by two criteria, in a run with
\* samples_per_datapoint = 1 whose default_api_params ask for n = 3.
C14_Witness ==
  /\ 1 \in DOMAIN task
  /\ Succeeded(1)
  /\ args.samples_per_datapoint = 1
  /\ Len(futures[1].result.outputs) = 3
  /\ DOMAIN futures[1].result.scores = {"length", "match"}
  /\ futures[1].result.scores["length"][1] # futures[1].result.scores["length"][3]

\* An LMP invocation that never terminates is under way.
HungInvocation ==
  \E i \in DOMAIN task :
    task[i].phase = "lmp" /\ Lmp(self.dataset[i].input.arg, run_api_params).tag = "never"

\* C15: with the threads scheduled fairly, either run() eventually returns or
\* raises, or some LMP invocation never terminates; and once an invocation that
\* never terminates is under way, run() never returns or raises.
C15_Termination ==
  /\ <>(Done \/ HungInvocation)
  /\ [](HungInvocation => [](~Done))

\* A task failed and was drained, so run() is leaving the pool, while another
\* row's LMP invocation hangs.
C15_Witness ==
  /\ pc = "shutdown"
  /\ exc = "UpstreamError"
  /\ HungInvocation

\* The rows whose results the draining loop has merged, in the order it merged
\* them (a drained future that had failed adds nothing).
MergedRows ==
  LET merged(i) == ~Failed(i)
  IN SelectSeq(drained, merged)

\* C16: after every iteration of the draining loop, whatever the completion
\* order, outputs is the concatenation, in merge order, of the merged rows'
\* output blocks, each block in the order the LMP returned it, and every
\* criterion's score list has the length of outputs and holds at position k the
\* criterion applied to outputs[k] and the datapoint that produced it.
C16_Aligned ==
  /\ outputs = ConcatOutputs(MergedRows)
  /\ pbar = Len(MergedRows)
  /\ \A name \in DOMAIN scores : name \in DOMAIN self.criteria
  /\ \A name \in DOMAIN self.criteria :
       /\ Len(ScoresGet(scores, name)) = Len(outputs)
       /\ ScoresGet(scores, name) = ConcatScores(name, MergedRows)

\* Mid-loop, after one iteration that merged row 2 before row 1: two outputs
\* whose length scores differ.
C16_Witness ==
  /\ pc = "drain"
  /\ drained = <<2>>
  /\ Len(outputs) = 2
  /\ "length" \in DOMAIN scores
  /\ scores["length"][1] # scores["length"][2]

\* C17: when two overlapping run() calls have both exited, config.verbose equals
\* the value it had before the first of them started.
C17_OverlapRestored ==
  (Done /\ other.pc = "done") => config_verbose = verbose0

\* The draining loop has met a failed task (it stops there, so that task is the
\* last one drained).
FailureObserved == drained # << >> /\ Failed(LastDrained)

\* run() has left the pool's with block.
PoolLeft == pc \in {"finally", "done"} /\ args.n_workers >= 1

\* Every row's task was submitted and has run to its end.
AllTasksFinished ==
  /\ Len(task) = Len(self.dataset)
  /\ \A i \in Rows : task[i].phase = "done" /\ futures[i].state = "FINISHED"

\* After the loop met a failed task, nothing is cancelled and run() reaches its
\* finally block only when every task has finished, raising the error of the
\* failed task it met, the first failed one in draining order.
NotCancelled ==
  /\ FailureObserved => \A i \in Range(work_queue) : futures[i].state = "PENDING"
  /\ PoolLeft => AllTasksFinished
  /\ (FailureObserved /\ pc \in {"shutdown", "finally", "done"}) =>
       /\ exc = futures[LastDrained].exception
       /\ \A k \in 1..(Len(drained) - 1) : ~Failed(drained[k])
  /\ (FailureObserved /\ Done) => (Raised /\ ret = None)

\* A worker takes row i from the queue after the loop met a failed task.
TakenAfterFailure(i) ==
  /\ FailureObserved
  /\ i \in DOMAIN task
  /\ task[i].phase = "queued"
  /\ task'[i].phase # "queued"

\* C18 as stated: after the loop met a failed task every remaining task still
\* runs and the LMP is invoked for its row; run() raises only after all tasks
\* have finished, with the error of the first failed task in draining order.
C18_RemainingInvokeLmp ==
  /\ []NotCancelled
  /\ [][\A i \in Rows : TakenAfterFailure(i) => Len(lmp_calls'[i]) = 1]_vars

\* C18, amended: after the loop met a failed task every remaining task still
\* runs: the LMP is invoked once for its row if the row's input is a list or a
\* dict, and otherwise the task fails with the invalid-input error without an
\* LMP call; run() raises only after all tasks have finished, with the error of
\* the first failed task in draining order.
C18_Amended ==
  /\ []NotCancelled
  /\ [][\A i \in Rows :
          TakenAfterFailure(i) =>
            IF i \in InvalidRows
              THEN lmp_calls'[i] = << >> /\ futures'[i].exception = "ValueError:input"
              ELSE lmp_calls'[i] = <<run_api_params>> /\ task'[i].phase = "lmp"]_vars

\* The loop has met a failed task while another task is still queued.
C18_Witness ==
  /\ pc = "shutdown"
  /\ FailureObserved
  /\ work_queue # << >>

\* The rows for which the LMP returned an empty sequence.
EmptyRows == {i \in DOMAIN task : PastLmp(i) /\ task[i].lmp_output = << >>}

\* C19 as stated: when the LMP returned an empty sequence for a datapoint, the
\* progress update for that datapoint's task fails and run() aborts with that
\* error.
C19_ProgressUpdateFails ==
  (Done /\ EmptyRows # {}) =>
    /\ Raised
    /\ exc \in ProgressErrors
    /\ LastDrained \in EmptyRows

\* C19, amended: run() never returns a record when the LMP returned an empty
\* sequence for some datapoint.  If that datapoint's result is merged, the
\* progress update of that very iteration fails (StatisticsError when criteria
\* are configured and a score list is still empty, IndexError otherwise) and
\* aborts the run; if the loop stops before reaching it, it stopped on a failed
\* task or on another empty result, and run() raises that error.
C19_Amended ==
  /\ Returned => (EmptyRows = {} /\ \A i \in Rows : RowOutputs(i) # << >>)
  /\ \A i \in EmptyRows :
       i \in Range(drained) =>
         /\ LastDrained = i
         /\ pc \in {"shutdown", "finally", "done"}
         /\ exc = IF \E name \in DOMAIN self.criteria : ScoresGet(scores, name) = << >>
                    THEN "StatisticsError"
                    ELSE "IndexError"
  /\ (Done /\ EmptyRows # {}) =>
       /\ Raised
       /\ ret = None
       /\ drained # << >>
       /\ LastDrained \in EmptyRows \/ Failed(LastDrained)
       /\ Failed(LastDrained) => exc = futures[LastDrained].exception

\* Criteria are configured and an earlier task's scores were merged, so the
\* running mean is fine and the preview of the empty output list fails.
C19_Witness ==
  /\ Raised
  /\ DOMAIN self.criteria # {}
  /\ Len(drained) = 2
  /\ LastDrained \in EmptyRows
  /\ exc = "IndexError"
  /\ outputs # << >>

\* C20: no step of run() changes the Evaluation (name, dataset, criteria,
\* default_api_params) or the arguments the caller passed (api_params among
\* them), on the way to a return as on the way to an exception; forcing n
\* changes run_api_params only.
C20_ConfigUnchanged ==
  [][self' = self /\ args' = args]_vars

\* A run that forced n = 2 over an n given both in default_api_params and in
\* api_params has exited with both mappings as they were.
C20_Witness ==
  /\ Done
  /\ args.samples_per_datapoint = 2
  /\ self.default_api_params = [n |-> 3, temperature |-> 1]
  /\ args.api_params = [n |-> 1, temperature |-> 2]
  /\ run_api_params = [n |-> 2, temperature |-> 2]
  /\ self.dataset # << >>

====
